---- MODULE Spec2Model ----
(***************************************************************************)
(* Model of the Discourse plugin of metagov:                               *)
(*   - DiscoursePoll, a GovernanceProcess (start / update / close and the  *)
(*     outcome reconciliation update_outcome_from_discourse_poll);         *)
(*   - Discourse.receive_webhook with validate_request_signature.          *)
(* Source: src/metagov/metagov/plugins/discourse/models.py                 *)
(***************************************************************************)
EXTENDS Integers, Sequences, FiniteSets, TLC

(***************************************************************************)
(* Bounds of the model.                                                    *)
(***************************************************************************)
\* vote counts reported by the remote poll range over 0..MaxVotes
MaxVotes == 1
\* number of start/update/close invocations in one behaviour
MaxCalls == 3
\* remote identifiers (post id, topic id) range over 1..MaxId
MaxId == 1
\* number of webhook deliveries in one behaviour
MaxDeliveries == 2
\* number of concurrent invocations of update/close on the one process
MaxWorkers == 2
\* number of changes of the remote poll (votes cast, closing) in one behaviour
MaxRemoteSteps == 2

(***************************************************************************)
(* Values.                                                                 *)
(***************************************************************************)
\* ProcessStatus values, the choices of the status column
CREATED == "created"
PENDING == "pending"
COMPLETED == "completed"

\* the options of the poll (parameters["options"])
Options == {"red", "blue"}
Counts == 0 .. MaxVotes
Ids == 1 .. MaxId
Slugs == {"pick-a-color"}

\* plugin configuration (config_schema: api_key, server_url, webhook_secret)
config == [server_url |-> "https://forum", webhook_secret |-> 1]

(***************************************************************************)
(* Python dicts: functions whose domain is the set of keys present.        *)
(***************************************************************************)
EmptyDict == << >>

Get(d, k, default) == IF k \in DOMAIN d THEN d[k] ELSE default

Put(d, k, v) == [x \in (DOMAIN d) \cup {k} |-> IF x = k THEN v ELSE d[x]]

(***************************************************************************)
(* Remote answers.                                                         *)
(***************************************************************************)
\* lists of poll options {html, votes} with pairwise distinct html
OptionLists ==
    {<< >>}
    \cup {<<[html |-> o, votes |-> n]>> : o \in Options, n \in Counts}
    \cup {<<[html |-> o1, votes |-> n1], [html |-> o2, votes |-> n2]>> :
            <<o1, o2, n1, n2>> \in
                {t \in Options \X Options \X Counts \X Counts : t[1] # t[2]}}

\* a poll object as Discourse returns it
Polls == [options : OptionLists, status : {"open", "closed"}]

\* placeholder of the poll field when the answer carries none
NoPoll == [options |-> << >>, status |-> "none"]

\* answers to GET /t/<topic_id>.json and PUT /polls/toggle_status
\* kind: "ok" (resp.ok), "http_error" (not resp.ok), "unreachable" (requests raises)
PollResponses ==
    [kind : {"ok"}, poll : Polls]
    \cup [kind : {"http_error", "unreachable"}, poll : {NoPoll}]

\* answers to POST /posts.json; errors: the 'errors' entry of the body is
\* absent, present but empty (falsy), or non-empty
CreateResponses ==
    [kind : {"ok"}, errors : {"absent", "empty", "some"},
     id : Ids, topic_id : Ids, topic_slug : Slugs]
    \cup [kind : {"http_error", "unreachable"}, errors : {"absent"},
          id : {1}, topic_id : {1}, topic_slug : Slugs]

(***************************************************************************)
(* Webhook deliveries.                                                     *)
(***************************************************************************)
EVENT_POST_CREATED == "post_created"
EVENT_TOPIC_CREATED == "topic_created"

\* shared secrets: the configured webhook_secret and another one
Secrets == {config.webhook_secret, 2}

\* request bodies: a JSON document carrying a "post" or a "topic" object with
\* the fields receive_webhook reads, or bytes that are not JSON ("text")
Bodies == [kind : {"post", "topic", "text"}, id : Ids, username : {"alice"}]

NoBody == [kind |-> "none", id |-> 1, username |-> ""]

\* hmac.new(key, body, hashlib.sha256).hexdigest(): a keyed digest, distinct
\* for distinct (key, body)
HexDigest(key, body) == [key |-> key, msg |-> body]

\* the X-Discourse-Event-Signature header: absent, or a prefix and a digest
NoSignature == [present |-> FALSE, prefix |-> "", digest |-> HexDigest(0, NoBody)]

SignatureHeaders ==
    {NoSignature}
    \cup [present : {TRUE}, prefix : {"sha256=", ""},
          digest : {HexDigest(k, b) : k \in Secrets, b \in Bodies}]

\* the X-Discourse-Instance header ("missing": the header is absent)
InstanceHeaders == {config.server_url, "https://other", "missing"}

\* the X-Discourse-Event header
EventHeaders == {EVENT_POST_CREATED, EVENT_TOPIC_CREATED, "user_created"}

Requests == [signature : SignatureHeaders, body : Bodies,
             instance : InstanceHeaders, event : EventHeaders]

\* the record of one delivery: the request, the exception receive_webhook
\* raised ("none" if it returned), whether it sent an event to the driver,
\* and the steps it went through, in order
NoDelivery ==
    [request |-> [signature |-> NoSignature, body |-> NoBody,
                  instance |-> "missing", event |-> "none"],
     raised |-> "none", forwarded |-> FALSE, steps |-> << >>]

(***************************************************************************)
(* State.                                                                  *)
(***************************************************************************)
VARIABLES
    db,       \* the persisted process record: [status, outcome]
    state,    \* the private datastore of the process (self.state), a dict
    started,  \* start() has been invoked (the host invokes it at most once)
    calls,    \* number of start/update/close invocations so far
    last,     \* what the most recent invocation did
    plugin_state,  \* the datastore of the plugin instance (Plugin.state)
    events,   \* the events sent to the driver, in order
    sources,  \* for each event sent, the delivery it was made from
    delivered,  \* number of webhook deliveries received so far
    hook,     \* what the most recent webhook delivery did
    remote,   \* the poll on the remote platform and its version
    pc,       \* per invocation: "idle", "request", "reconcile" or "done"
    method,   \* per invocation: "update" or "close"
    inst,     \* per invocation: its instance of the process (self)
    obs,      \* per invocation: the poll it got and the remote version of it
    dbver     \* the remote version the persisted record was last saved from

procVars == <<db, state, started, calls, last>>

hookVars == <<plugin_state, events, sources, delivered, hook>>

concVars == <<remote, pc, method, inst, obs, dbver>>

vars == <<db, state, started, calls, last,
          plugin_state, events, sources, delivered, hook,
          remote, pc, method, inst, obs, dbver>>

Workers == 1 .. MaxWorkers

\* the remote poll: votes per option, open or closed; ver counts its changes
RemoteInit == [votes |-> [o \in Options |-> 0], status |-> "open", ver |-> 0]

NoObs == [poll |-> NoPoll, ver |-> 0]

\* the record of one invocation: which operation, the exception it raised
\* ("none" if it returned), how many remote requests it issued, whether it
\* called save(), the record and datastore it started from, the poll it
\* reconciled and the answer it got (for update/close only its kind)
NoCreate == [kind |-> "none", errors |-> "absent", id |-> 1, topic_id |-> 1,
             topic_slug |-> "pick-a-color"]

NoCall == [op |-> "none", raised |-> "none", requests |-> 0, saved |-> FALSE,
           pre |-> [status |-> CREATED, outcome |-> EmptyDict],
           prestate |-> EmptyDict, poll |-> NoPoll, resp |-> NoCreate]

Init ==
    /\ db = [status |-> CREATED, outcome |-> EmptyDict]
    /\ state = EmptyDict
    /\ started = FALSE
    /\ calls = 0
    /\ last = NoCall
    /\ plugin_state = [community_name |-> "community"]
    /\ events = << >>
    /\ sources = << >>
    /\ delivered = 0
    /\ hook = NoDelivery
    /\ remote = RemoteInit
    /\ pc = [w \in Workers |-> "idle"]
    /\ method = [w \in Workers |-> "update"]
    /\ inst = [w \in Workers |-> db]
    /\ obs = [w \in Workers |-> NoObs]
    /\ dbver = 0

(***************************************************************************)
(* The calls the host makes (GovernanceProcess contract): start() at most  *)
(* once, on the process as created; update() and close() only on a process *)
(* that start() has made pending, or that is completed.                    *)
(***************************************************************************)
HostMayCall(op) ==
    IF op = "start"
    THEN ~started /\ db.status = CREATED
    ELSE db.status \in {PENDING, COMPLETED}

(***************************************************************************)
(* DiscoursePoll.update_outcome_from_discourse_poll                        *)
(***************************************************************************)
\* the loop with the test votes.get(key, 0) < val: counts are only raised
RECURSIVE MergeVotes_OnlyUp(_, _)
MergeVotes_OnlyUp(votes, opts) ==
    IF opts = << >>
    THEN [votes |-> votes, dirty |-> FALSE]
    ELSE LET key == Head(opts).html
             val == Head(opts).votes
             differs == Get(votes, key, 0) < val
             votes1 == IF differs THEN Put(votes, key, val) ELSE votes
             rest == MergeVotes_OnlyUp(votes1, Tail(opts))
         IN  [votes |-> rest.votes, dirty |-> differs \/ rest.dirty]

\* the loop over poll["options"]: votes[key] = val where votes.get(key) != val
RECURSIVE MergeVotes(_, _)
MergeVotes(votes, opts) ==
    IF opts = << >>
    THEN [votes |-> votes, dirty |-> FALSE]
    ELSE LET key == Head(opts).html
             val == Head(opts).votes
             differs == (key \notin DOMAIN votes) \/ (votes[key] # val)
             votes1 == IF differs THEN Put(votes, key, val) ELSE votes
             rest == MergeVotes(votes1, Tail(opts))
         IN  [votes |-> rest.votes, dirty |-> differs \/ rest.dirty]

\* a reconciliation that copies the status of the poll into the process
StatusAfter_FromPoll(self, poll) ==
    IF poll.status = "closed" THEN COMPLETED ELSE PENDING

\* a reconciliation that never assigns the status
StatusAfter_Keep(self, poll) == self.status

\* a reconciliation that completes the process on every poll
StatusAfter_Always(self, poll) == COMPLETED

\* status assignment of a reconciliation: COMPLETED when the poll is closed
StatusAfter(self, poll) ==
    IF poll.status = "closed" THEN COMPLETED ELSE self.status

\* a dirty flag that only the vote counts set
Dirty_OnlyVotes(merged, poll) == merged.dirty

\* the dirty flag: some vote count differed, or the poll is closed
Dirty(merged, poll) == merged.dirty \/ poll.status = "closed"

\* a reconciliation that builds the outcome anew from the poll: votes = {}
\* and self.outcome = {"votes": votes}
update_outcome_from_discourse_poll_Overwrite(self, poll) ==
    LET merged == MergeVotes(EmptyDict, poll.options)
        dirty == Dirty(merged, poll)
    IN  [self |-> [status |-> StatusAfter(self, poll),
                   outcome |-> IF dirty
                               THEN [votes |-> merged.votes]
                               ELSE self.outcome],
         saved |-> dirty]

\* the result: the instance after the call and whether save() was called
update_outcome_from_discourse_poll(self, poll) ==
    LET merged == MergeVotes(Get(self.outcome, "votes", EmptyDict), poll.options)
        dirty == Dirty(merged, poll)
    IN  [self |-> [status |-> StatusAfter(self, poll),
                   outcome |-> IF dirty
                               THEN Put(self.outcome, "votes", merged.votes)
                               ELSE self.outcome],
         saved |-> dirty]

(***************************************************************************)
(* DiscoursePoll.start                                                     *)
(***************************************************************************)
\* start() without the check of the 'errors' entry of the body
StartRaises_NoErrorsCheck(resp) ==
    IF resp.kind = "unreachable" THEN "ConnectionError"
    ELSE IF resp.kind # "ok" THEN "PluginErrorInternal"
    ELSE "none"

\* the exception start() raises on the answer, "none" if it goes on
StartRaises(resp) ==
    IF resp.kind = "unreachable" THEN "ConnectionError"
    ELSE IF resp.kind # "ok" THEN "PluginErrorInternal"
    ELSE IF resp.errors = "some" THEN "PluginErrorInternal"
    ELSE "none"

\* f"{discourse_server_url}/t/{topic_slug}/{topic_id}"
PollUrl(resp) == <<config.server_url, "t", resp.topic_slug, resp.topic_id>>

\* a start() that does not store the post id
StartState_NoPostId(st, resp) ==
    Put(Put(st, "topic_id", resp.topic_id), "topic_slug", resp.topic_slug)

\* the three self.state.set calls
StartState(st, resp) ==
    Put(Put(Put(st, "post_id", resp.id), "topic_id", resp.topic_id),
        "topic_slug", resp.topic_slug)

Start(resp) ==
    /\ HostMayCall("start")
    /\ calls < MaxCalls
    /\ started' = TRUE
    /\ calls' = calls + 1
    /\ LET exc == StartRaises(resp)
       IN  /\ IF exc # "none"
              THEN UNCHANGED <<db, state>>
              ELSE /\ state' = StartState(state, resp)
                   /\ db' = [status |-> PENDING,
                             outcome |-> [poll_url |-> PollUrl(resp)]]
           /\ last' = [op |-> "start", raised |-> exc, requests |-> 1,
                       saved |-> (exc = "none"), pre |-> db, prestate |-> state,
                       poll |-> NoPoll, resp |-> resp]
    /\ UNCHANGED hookVars
    /\ UNCHANGED concVars

(***************************************************************************)
(* DiscoursePoll.update and DiscoursePoll.close                            *)
(***************************************************************************)
\* update()/close() without the check of resp.ok
FetchRaises_NoOkCheck(resp) ==
    IF resp.kind = "unreachable" THEN "ConnectionError" ELSE "none"

\* the exception raised on the answer of the remote call, "none" if resp.ok
FetchRaises(resp) ==
    IF resp.kind = "unreachable" THEN "ConnectionError"
    ELSE IF resp.kind # "ok" THEN "PluginErrorInternal"
    ELSE "none"

\* the common shape of update() and close(): one remote request, then the
\* reconciliation of the poll of the answer
Answered(op, resp) ==
    LET exc == FetchRaises(resp)
        res == update_outcome_from_discourse_poll(db, resp.poll)
    IN  /\ db' = IF exc = "none" /\ res.saved THEN res.self ELSE db
        /\ last' = [op |-> op, raised |-> exc, requests |-> 1,
                    saved |-> (exc = "none" /\ res.saved), pre |-> db,
                    prestate |-> state, poll |-> resp.poll,
                    resp |-> [NoCreate EXCEPT !.kind = resp.kind]]

Reconcile(op, resp) ==
    /\ calls' = calls + 1
    /\ UNCHANGED <<state, started>>
    /\ UNCHANGED hookVars
    /\ UNCHANGED concVars
    /\ Answered(op, resp)

\* update(): the request is GET /t/<topic_id>.json
Update(resp) ==
    /\ HostMayCall("update")
    /\ calls < MaxCalls
    /\ Reconcile("update", resp)

\* close(): the request is PUT /polls/toggle_status with status=closed
Close(resp) ==
    /\ HostMayCall("close")
    /\ calls < MaxCalls
    /\ Reconcile("close", resp)

Next ==
    \/ \E resp \in CreateResponses : Start(resp)
    \/ \E resp \in PollResponses : Update(resp)
    \/ \E resp \in PollResponses : Close(resp)

Spec == Init /\ [][Next]_vars

(***************************************************************************)
(* The same operations with the vote counts of the documented example run  *)
(* ("Pick a color": red 3, blue 5).                                        *)
(***************************************************************************)
ExampleCounts == {3, 5}

\* lists of poll options with pairwise distinct html and the given counts
OptionListsOver(counts) ==
    {<< >>}
    \cup {<<[html |-> o, votes |-> n]>> : o \in Options, n \in counts}
    \cup {<<[html |-> o1, votes |-> n1], [html |-> o2, votes |-> n2]>> :
            <<o1, o2, n1, n2>> \in
                {t \in Options \X Options \X counts \X counts : t[1] # t[2]}}

ExamplePollResponses ==
    [kind : {"ok"},
     poll : [options : OptionListsOver(ExampleCounts),
             status : {"open", "closed"}]]
    \cup [kind : {"http_error", "unreachable"}, poll : {NoPoll}]

ExampleNext ==
    \/ \E resp \in CreateResponses : Start(resp)
    \/ \E resp \in ExamplePollResponses : Update(resp)

ExampleSpec == Init /\ [][ExampleNext]_vars

(***************************************************************************)
(* Discourse.receive_webhook                                               *)
(***************************************************************************)
\* f"sha256={string_signature}" for the body under the configured secret
ExpectedSignature(body) ==
    [present |-> TRUE, prefix |-> "sha256=",
     digest |-> HexDigest(config.webhook_secret, body)]

\* validation without the check of X-Discourse-Instance
validate_request_signature_NoOriginCheck(request) ==
    IF ~request.signature.present THEN "Missing event signature"
    ELSE IF request.signature # ExpectedSignature(request.body)
    THEN "Invalid signature header"
    ELSE "none"

\* the exception validate_request_signature raises, "none" if it returns
validate_request_signature(request) ==
    IF ~request.signature.present THEN "Missing event signature"
    ELSE IF request.signature # ExpectedSignature(request.body)
    THEN "Invalid signature header"
    ELSE IF request.instance = "missing" THEN "KeyError"
    ELSE IF request.instance # config.server_url
    THEN "Unexpected X-Discourse-Instance"
    ELSE "none"

\* a dispatch that lacks the topic_created branch
BranchOf_NoTopic(event) ==
    IF event = "post_created" THEN "post" ELSE "none"

\* the branch of receive_webhook the event header selects: the key of the
\* body it projects, "none" for an event that is not handled
BranchOf(event) ==
    IF event = "post_created" THEN "post"
    ELSE IF event = "topic_created" THEN "topic"
    ELSE "none"

\* the exception of the projection: body.get(<key>) is None when the body
\* carries no such object, and subscripting it raises TypeError
ProjectionRaises(request) ==
    IF BranchOf(request.event) = "none" THEN "none"
    ELSE IF request.body.kind # BranchOf(request.event) THEN "TypeError"
    ELSE "none"

\* the arguments of send_event_to_driver
DriverEvent(request) ==
    [event_type |-> IF BranchOf(request.event) = "post"
                    THEN EVENT_POST_CREATED ELSE EVENT_TOPIC_CREATED,
     initiator |-> [user_id |-> request.body.username, provider |-> "discourse"],
     data |-> [id |-> request.body.id,
               url |-> <<config.server_url, "t", request.body.id>>]]

\* json.loads(request.body) raises on a body that is not JSON
ParseRaises(request) ==
    IF request.body.kind = "text" THEN "JSONDecodeError" ELSE "none"

\* the checks validate_request_signature makes, in order, up to its raise
ValidateSteps(request) ==
    IF ~request.signature.present THEN <<"signature">>
    ELSE IF request.signature # ExpectedSignature(request.body)
    THEN <<"signature">>
    ELSE <<"signature", "origin">>

\* a receive_webhook that reads the event and parses the body first
WebhookSteps_ParseFirst(request, invalid, forwarded) ==
    <<"event", "parse">> \o ValidateSteps(request)
        \o (IF forwarded THEN <<"forward">> ELSE << >>)

\* the steps of receive_webhook, in order: the validation, then the read of
\* the event header and json.loads, then send_event_to_driver
WebhookSteps(request, invalid, forwarded) ==
    IF invalid # "none" THEN ValidateSteps(request)
    ELSE ValidateSteps(request) \o <<"event", "parse">>
            \o (IF forwarded THEN <<"forward">> ELSE << >>)

ReceiveWebhook(request) ==
    /\ delivered < MaxDeliveries
    /\ delivered' = delivered + 1
    /\ LET invalid == validate_request_signature(request)
           raised == IF invalid # "none" THEN invalid
                     ELSE IF ParseRaises(request) # "none"
                     THEN ParseRaises(request)
                     ELSE ProjectionRaises(request)
           forwarded == raised = "none" /\ BranchOf(request.event) # "none"
       IN  /\ events' = IF forwarded
                        THEN Append(events, DriverEvent(request))
                        ELSE events
           /\ sources' = IF forwarded THEN Append(sources, request)
                         ELSE sources
           /\ hook' = [request |-> request, raised |-> raised,
                       forwarded |-> forwarded,
                       steps |-> WebhookSteps(request, invalid, forwarded)]
    /\ UNCHANGED plugin_state
    /\ UNCHANGED procVars
    /\ UNCHANGED concVars

WebhookNext == \E request \in Requests : ReceiveWebhook(request)

WebhookSpec == Init /\ [][WebhookNext]_vars

(***************************************************************************)
(* update() and close() invoked concurrently on one process.  Each          *)
(* invocation works on its own instance of the record; its steps are the   *)
(* remote request, and the reconciliation with its save().                 *)
(***************************************************************************)
\* a process that start() has made pending
StartedRecord ==
    [status |-> PENDING,
     outcome |-> [poll_url |-> PollUrl([NoCreate EXCEPT !.kind = "ok"])]]

ConcInit ==
    /\ db = StartedRecord
    /\ state = StartState(EmptyDict, NoCreate)
    /\ started = TRUE
    /\ calls = 1
    /\ last = NoCall
    /\ plugin_state = [community_name |-> "community"]
    /\ events = << >>
    /\ sources = << >>
    /\ delivered = 0
    /\ hook = NoDelivery
    /\ remote = RemoteInit
    /\ pc = [w \in Workers |-> "idle"]
    /\ method = [w \in Workers |-> "update"]
    /\ inst = [w \in Workers |-> StartedRecord]
    /\ obs = [w \in Workers |-> NoObs]
    /\ dbver = 0

\* the poll object the platform returns for the remote poll
PollOf(r) ==
    [options |-> <<[html |-> "red", votes |-> r.votes["red"]],
                   [html |-> "blue", votes |-> r.votes["blue"]]>>,
     status |-> r.status]

\* a user votes on the platform
RemoteVote(o) ==
    /\ remote.ver < MaxRemoteSteps
    /\ remote.status = "open"
    /\ remote.votes[o] < MaxVotes
    /\ remote' = [remote EXCEPT !.votes[o] = @ + 1, !.ver = @ + 1]
    /\ UNCHANGED <<pc, method, inst, obs, dbver>>
    /\ UNCHANGED procVars
    /\ UNCHANGED hookVars

\* a user closes the poll on the platform
RemoteClose ==
    /\ remote.ver < MaxRemoteSteps
    /\ remote.status = "open"
    /\ remote' = [remote EXCEPT !.status = "closed", !.ver = @ + 1]
    /\ UNCHANGED <<pc, method, inst, obs, dbver>>
    /\ UNCHANGED procVars
    /\ UNCHANGED hookVars

\* the host invokes update() or close() on its instance of the record
Invoke(w, o) ==
    /\ pc[w] = "idle"
    /\ db.status \in {PENDING, COMPLETED}
    /\ pc' = [pc EXCEPT ![w] = "request"]
    /\ method' = [method EXCEPT ![w] = o]
    /\ inst' = [inst EXCEPT ![w] = db]
    /\ UNCHANGED <<remote, obs, dbver>>
    /\ UNCHANGED procVars
    /\ UNCHANGED hookVars

\* update(): GET /t/<topic_id>.json answers with the poll as it is now
UpdateRequest(w) ==
    /\ pc[w] = "request" /\ method[w] = "update"
    /\ obs' = [obs EXCEPT ![w] = [poll |-> PollOf(remote), ver |-> remote.ver]]
    /\ pc' = [pc EXCEPT ![w] = "reconcile"]
    /\ UNCHANGED <<remote, method, inst, dbver>>
    /\ UNCHANGED procVars
    /\ UNCHANGED hookVars

\* close(): PUT /polls/toggle_status closes the poll and answers with it
CloseRequest(w) ==
    /\ pc[w] = "request" /\ method[w] = "close"
    /\ LET closed == IF remote.status = "closed" THEN remote
                     ELSE [remote EXCEPT !.status = "closed", !.ver = @ + 1]
       IN  /\ remote' = closed
           /\ obs' = [obs EXCEPT ![w] = [poll |-> PollOf(closed),
                                         ver |-> closed.ver]]
    /\ pc' = [pc EXCEPT ![w] = "reconcile"]
    /\ UNCHANGED <<method, inst, dbver>>
    /\ UNCHANGED procVars
    /\ UNCHANGED hookVars

\* the remote request fails: the invocation raises and ends
RequestFails(w) ==
    /\ pc[w] = "request"
    /\ pc' = [pc EXCEPT ![w] = "done"]
    /\ UNCHANGED <<remote, method, inst, obs, dbver>>
    /\ UNCHANGED procVars
    /\ UNCHANGED hookVars

\* update_outcome_from_discourse_poll on the instance of the invocation;
\* save() writes the whole instance, status included
ReconcileAndSave(w) ==
    /\ pc[w] = "reconcile"
    /\ LET res == update_outcome_from_discourse_poll(inst[w], obs[w].poll)
       IN  /\ inst' = [inst EXCEPT ![w] = res.self]
           /\ db' = IF res.saved THEN res.self ELSE db
           /\ dbver' = IF res.saved THEN obs[w].ver ELSE dbver
    /\ pc' = [pc EXCEPT ![w] = "done"]
    /\ UNCHANGED <<remote, method, obs>>
    /\ UNCHANGED <<state, started, calls, last>>
    /\ UNCHANGED hookVars

ConcNext ==
    \/ \E o \in Options : RemoteVote(o)
    \/ RemoteClose
    \/ \E w \in Workers, o \in {"update", "close"} : Invoke(w, o)
    \/ \E w \in Workers : UpdateRequest(w)
    \/ \E w \in Workers : CloseRequest(w)
    \/ \E w \in Workers : RequestFails(w)
    \/ \E w \in Workers : ReconcileAndSave(w)

ConcSpec == ConcInit /\ [][ConcNext]_vars

(***************************************************************************)
(* update() and close() against the remote poll, one invocation at a time: *)
(* the answer of a successful request is the poll as the platform has it.  *)
(***************************************************************************)
\* the form data of close() with another status
CloseData_Open == [poll_name |-> "poll", status |-> "open"]

\* the form data of the request of close()
CloseData == [poll_name |-> "poll", status |-> "closed"]

\* the platform applying PUT /polls/toggle_status
Toggled(r, data) ==
    IF r.status = data.status THEN r
    ELSE [r EXCEPT !.status = data.status, !.ver = @ + 1]

\* the answer of kind "ok" carries the poll, the others none
AnswerWith(kind, r) ==
    [kind |-> kind, poll |-> IF kind = "ok" THEN PollOf(r) ELSE NoPoll]

ResponseKinds == {"ok", "http_error", "unreachable"}

\* update(): the answer of GET /t/<topic_id>.json is the poll as it is now
PollUpdate(kind) ==
    /\ HostMayCall("update")
    /\ Answered("update", AnswerWith(kind, remote))
    /\ UNCHANGED <<state, started, calls>>
    /\ UNCHANGED hookVars
    /\ UNCHANGED concVars

\* close(): a successful PUT /polls/toggle_status changes the remote poll and
\* answers with it; a failed one leaves it alone
PollClose(kind) ==
    /\ HostMayCall("close")
    /\ LET after == IF kind = "ok" THEN Toggled(remote, CloseData) ELSE remote
       IN  /\ remote' = after
           /\ Answered("close", AnswerWith(kind, after))
    /\ UNCHANGED <<state, started, calls>>
    /\ UNCHANGED hookVars
    /\ UNCHANGED <<pc, method, inst, obs, dbver>>

PollNext ==
    \/ \E o \in Options : RemoteVote(o)
    \/ RemoteClose
    \/ \E kind \in ResponseKinds : PollUpdate(kind)
    \/ \E kind \in ResponseKinds : PollClose(kind)

\* the host keeps invoking update() on a process that is not completed, and
\* its requests succeed again and again
PollSpec == ConcInit /\ [][PollNext]_vars /\ WF_vars(PollUpdate("ok"))

(***************************************************************************)
(* Properties of the process lifecycle.                                    *)
(***************************************************************************)
\* the most recent invocation was an update() or a close()
LastIsReconcile == last.op \in {"update", "close"}

\* the step is an invocation of update() or close()
ReconcileStep == calls' = calls + 1 /\ last'.op \in {"update", "close"}

\* some vote count of the poll differs from the stored votes
VotesDiffer(outcome, poll) ==
    \E i \in DOMAIN poll.options :
        LET votes == Get(outcome, "votes", EmptyDict)
            opt == poll.options[i]
        IN  opt.html \notin DOMAIN votes \/ votes[opt.html] # opt.votes

C2_NoMutationAfterCompleted ==
    [][(db.status = COMPLETED /\ ReconcileStep) => db' = db]_vars

\* C3: update() or close() invoked on a completed process issues no remote
\* request, calls no save() and raises nothing.
C3_CompletedIsNoOp ==
    (LastIsReconcile /\ last.pre.status = COMPLETED)
        => (last.requests = 0 /\ ~last.saved /\ last.raised = "none")

\* C4: when the same poll snapshot is reconciled by two invocations in a row,
\* the second invocation calls no save().
C4_SecondApplicationDoesNotSave ==
    [][(/\ LastIsReconcile /\ last.raised = "none"
        /\ ReconcileStep /\ last'.raised = "none"
        /\ last'.poll = last.poll) => ~last'.saved]_vars

\* C5: a reconciliation calls save() exactly when a vote count of the poll
\* differs from the stored outcome or the status value differs from the
\* stored status.
C5_SaveIffChanged ==
    (LastIsReconcile /\ last.raised = "none")
        => (last.saved <=> (\/ VotesDiffer(last.pre.outcome, last.poll)
                            \/ db.status # last.pre.status))

\* the create call answered with a non-success status or with a body that
\* reports errors
CreateFailed(resp) ==
    resp.kind = "http_error" \/ (resp.kind = "ok" /\ resp.errors = "some")

\* C6: when the create call of start() answers with a non-success status or a
\* body reporting errors, start() raises, the status stays created, the
\* outcome is unchanged, save() is not called and post_id, topic_id and
\* topic_slug are not written to the private datastore.
C6_FailedStartLeavesCreated ==
    (last.op = "start" /\ CreateFailed(last.resp))
        => /\ last.raised = "PluginErrorInternal"
           /\ db.status = CREATED
           /\ db = last.pre
           /\ ~last.saved
           /\ state = last.prestate
           /\ DOMAIN state \cap {"post_id", "topic_id", "topic_slug"} = {}

\* C6 witness: a start() whose create call answered 200 with errors
C6_Witness ==
    /\ last.op = "start"
    /\ last.resp.kind = "ok" /\ last.resp.errors = "some"
    /\ last.raised = "PluginErrorInternal"

\* C7: when the remote call of update() or close() on a pending process
\* fails, the call raises and the process is as before: status pending,
\* outcome and private datastore unchanged, no save(); the identifiers a
\* retry needs are still stored.
C7_FailedReconcileLeavesPending ==
    (LastIsReconcile /\ last.pre.status = PENDING /\ last.resp.kind # "ok")
        => /\ last.raised # "none"
           /\ last.resp.kind = "http_error" => last.raised = "PluginErrorInternal"
           /\ db = last.pre
           /\ db.status = PENDING
           /\ state = last.prestate
           /\ ~last.saved
           /\ {"post_id", "topic_id"} \subseteq DOMAIN state

\* C7 witness: a close() on a pending process answered with a non-success
\* status, after which the process is still pending
C7_Witness ==
    /\ last.op = "close"
    /\ last.pre.status = PENDING
    /\ last.resp.kind = "http_error"
    /\ last.raised = "PluginErrorInternal"
    /\ db.status = PENDING

\* the options the poll mentions
Mentioned(poll) == {poll.options[i].html : i \in DOMAIN poll.options}

\* the votes stored in an outcome
VotesOf(outcome) == Get(outcome, "votes", EmptyDict)

\* C11: reconciliation merges: after update() or close(), poll_url and the
\* stored vote count of every option the snapshot does not mention are as
\* they were before the call.
C11_ReconcileIsMerge ==
    LastIsReconcile
        => /\ "poll_url" \in DOMAIN last.pre.outcome
                => /\ "poll_url" \in DOMAIN db.outcome
                   /\ db.outcome["poll_url"] = last.pre.outcome["poll_url"]
           /\ \A o \in DOMAIN VotesOf(last.pre.outcome) \ Mentioned(last.poll) :
                /\ o \in DOMAIN VotesOf(db.outcome)
                /\ VotesOf(db.outcome)[o] = VotesOf(last.pre.outcome)[o]

\* C11 witness: an update() that saved a snapshot mentioning only red, on a
\* process that had a vote count stored for blue
C11_Witness ==
    /\ last.op = "update" /\ last.saved
    /\ Mentioned(last.poll) = {"red"}
    /\ "blue" \in DOMAIN VotesOf(last.pre.outcome)
    /\ "blue" \in DOMAIN VotesOf(db.outcome)
    /\ "poll_url" \in DOMAIN db.outcome

\* C12: after a successful update() or close() on a pending process the
\* persisted outcome has, for every option of the snapshot, the vote count of
\* the snapshot, also when that count is lower than the stored one.
C12_OutcomeAgreesWithSnapshot ==
    (LastIsReconcile /\ last.raised = "none" /\ last.pre.status = PENDING)
        => \A i \in DOMAIN last.poll.options :
              /\ last.poll.options[i].html \in DOMAIN VotesOf(db.outcome)
              /\ VotesOf(db.outcome)[last.poll.options[i].html]
                    = last.poll.options[i].votes

\* C12 witness: an update() on a pending process whose snapshot has a lower
\* count for red than the stored one
C12_Witness ==
    /\ last.op = "update" /\ last.raised = "none"
    /\ last.pre.status = PENDING
    /\ "red" \in DOMAIN VotesOf(last.pre.outcome)
    /\ \E i \in DOMAIN last.poll.options :
          /\ last.poll.options[i].html = "red"
          /\ last.poll.options[i].votes < VotesOf(last.pre.outcome)["red"]
          /\ VotesOf(db.outcome)["red"] = last.poll.options[i].votes

\* C13: when the remote poll has been closed on the platform, an update() on
\* the pending process whose request succeeds sets the status to completed
\* and saves it; and with update() invoked again and again with requests that
\* succeed, a pending process whose remote poll is closed becomes completed.
C13_ClosureDetectedByUpdate ==
    /\ [][(/\ last'.op = "update" /\ last' # last /\ last'.raised = "none"
            /\ remote.status = "closed" /\ db.status = PENDING)
           => (db'.status = COMPLETED /\ last'.saved)]_vars
    /\ (remote.status = "closed" /\ db.status = PENDING)
          ~> (db.status = COMPLETED)

\* C13 witness: an update() found the pending process's poll closed, without
\* any close() having succeeded, and completed the process
C13_Witness ==
    /\ last.op = "update" /\ last.raised = "none"
    /\ last.pre.status = PENDING
    /\ last.poll.status = "closed"
    /\ remote.status = "closed"
    /\ db.status = COMPLETED

\* the step is a close() on a pending process
CloseStepOnPending ==
    last'.op = "close" /\ last' # last /\ db.status = PENDING

\* C17: close() on a pending process issues the remote close request and
\* changes the record only after it: the record changes only when the request
\* succeeded and the remote poll is closed; and when the request succeeds the
\* call ends with status completed, saved, the outcome being the one
\* update_outcome_from_discourse_poll makes from the answered poll.
C17_CloseThenReconcile ==
    [][CloseStepOnPending
        => /\ last'.requests = 1
           /\ db' # db => (last'.raised = "none" /\ remote'.status = "closed")
           /\ last'.raised = "none"
                => /\ db'.status = COMPLETED
                   /\ last'.saved
                   /\ last'.poll = PollOf(remote')
                   /\ VotesOf(db'.outcome)
                        = [o \in Options |-> remote'.votes[o]]
                   /\ db'.outcome["poll_url"] = db.outcome["poll_url"]]_vars

\* C17 witness: a close() on a pending process, the poll having votes, has
\* succeeded and completed the process
C17_Witness ==
    /\ last.op = "close" /\ last.raised = "none"
    /\ last.pre.status = PENDING
    /\ remote.status = "closed" /\ remote.votes["red"] = 1
    /\ db.status = COMPLETED
    /\ VotesOf(db.outcome)["red"] = 1

\* the poll of the example: red 3, blue 5
ExamplePoll(status) ==
    [options |-> <<[html |-> "red", votes |-> 3], [html |-> "blue", votes |-> 5]>>,
     status |-> status]

ExampleVotes == [red |-> 3, blue |-> 5]

\* C14: the example run: a successful start() leaves status pending and the
\* outcome exactly {poll_url}; an update() observing red 3, blue 5, open, on
\* that process makes the outcome {poll_url, votes: {red: 3, blue: 5}} and
\* leaves it pending; an update() observing the same counts, closed, makes
\* it completed and leaves the outcome as it was.
C14_ExampleRun ==
    /\ (last.op = "start" /\ last.raised = "none")
         => db = [status |-> PENDING,
                  outcome |-> [poll_url |-> <<config.server_url, "t",
                                              last.resp.topic_slug,
                                              last.resp.topic_id>>]]
    /\ (/\ last.op = "update" /\ last.raised = "none"
        /\ last.pre.status = PENDING
        /\ DOMAIN last.pre.outcome = {"poll_url"}
        /\ last.poll = ExamplePoll("open"))
         => db = [status |-> PENDING,
                  outcome |-> [poll_url |-> last.pre.outcome["poll_url"],
                               votes |-> ExampleVotes]]
    /\ (/\ last.op = "update" /\ last.raised = "none"
        /\ last.pre.status = PENDING
        /\ VotesOf(last.pre.outcome) = ExampleVotes
        /\ last.poll = ExamplePoll("closed"))
         => (db.status = COMPLETED /\ db.outcome = last.pre.outcome)

\* C14 witness: the third call of the run, the update() observing red 3,
\* blue 5, closed, has completed the process
C14_Witness ==
    /\ calls = 3
    /\ last.op = "update" /\ last.raised = "none"
    /\ last.poll = ExamplePoll("closed")
    /\ last.pre.status = PENDING
    /\ DOMAIN last.pre.outcome = {"poll_url", "votes"}
    /\ last.pre.outcome["votes"] = ExampleVotes
    /\ db.status = COMPLETED
    /\ db.outcome = last.pre.outcome

C19_CompletedOnlyByClosedSnapshot ==
    [][(db.status # COMPLETED /\ db'.status = COMPLETED)
        => /\ last'.op \in {"update", "close"}
           /\ last'.raised = "none"
           /\ last'.poll.status = "closed"
           /\ last'.saved]_vars

\* C19 witness: an update() with a closed snapshot has completed a pending
\* process
C19_Witness ==
    /\ db.status = COMPLETED
    /\ last.op = "update" /\ last.raised = "none"
    /\ last.pre.status = PENDING
    /\ last.poll.status = "closed"

(***************************************************************************)
(* Properties of receive_webhook.                                          *)
(***************************************************************************)
\* the delivery carries no signature, a signature that is not the prefixed
\* digest of its body under the configured secret, or another instance
Unauthentic(request) ==
    \/ ~request.signature.present
    \/ request.signature.prefix # "sha256="
    \/ request.signature.digest # HexDigest(config.webhook_secret, request.body)
    \/ request.instance # config.server_url

\* C8: a delivery without signature header, with a signature that does not
\* match the body under webhook_secret, or with an X-Discourse-Instance other
\* than server_url is rejected with an error; no event is sent to the driver
\* and no plugin or process state changes.
C8_WebhookFailsClosed ==
    [][(delivered' = delivered + 1 /\ Unauthentic(hook'.request))
        => /\ hook'.raised # "none"
           /\ ~hook'.forwarded
           /\ events' = events
           /\ plugin_state' = plugin_state
           /\ db' = db /\ state' = state]_vars

\* C8 witness: a correctly signed delivery from another instance was rejected
C8_Witness ==
    /\ hook.request.signature = ExpectedSignature(hook.request.body)
    /\ hook.request.instance = "https://other"
    /\ hook.request.event = EVENT_POST_CREATED
    /\ hook.request.body.kind = "post"
    /\ hook.raised = "Unexpected X-Discourse-Instance"

\* C9: a delivery that is received again unchanged is not processed again:
\* no two events sent to the driver were made from the same delivery.
C9_ReplayNotProcessed ==
    \A i, j \in DOMAIN sources : i # j => sources[i] # sources[j]

\* the step is a delivery that passes signature and origin verification
VerifiedDelivery ==
    delivered' = delivered + 1 /\ ~Unauthentic(hook'.request)

Recognized == {EVENT_POST_CREATED, EVENT_TOPIC_CREATED}

\* what a verified delivery does: one event of its type for a recognized
\* type, nothing at all for another type
DeliveryHandled ==
    IF hook'.request.event \in Recognized
    THEN /\ Len(events') = Len(events) + 1
         /\ SubSeq(events', 1, Len(events)) = events
         /\ events'[Len(events')].event_type = hook'.request.event
    ELSE /\ events' = events
         /\ hook'.raised = "none"
         /\ plugin_state' = plugin_state
         /\ db' = db /\ state' = state

\* C15 as stated: every delivery that passes signature and origin
\* verification sends exactly one event of its type when the type is
\* post_created or topic_created, and otherwise sends no event, raises no
\* error and changes no state.
C15_EveryVerifiedDeliveryHandled ==
    [][VerifiedDelivery => DeliveryHandled]_vars

\* the body is a JSON document and, for a recognized type, carries the object
\* of that type
WellFormed(request) ==
    /\ request.body.kind # "text"
    /\ request.event = EVENT_POST_CREATED => request.body.kind = "post"
    /\ request.event = EVENT_TOPIC_CREATED => request.body.kind = "topic"

\* C15 amended: every delivery that passes signature and origin verification
\* and whose body is a JSON document carrying the object of its type sends
\* exactly one event of its type when the type is post_created or
\* topic_created, and otherwise sends no event, raises no error and changes
\* no state.
C15_WellFormedVerifiedDeliveryHandled ==
    [][(VerifiedDelivery /\ WellFormed(hook'.request)) => DeliveryHandled]_vars

\* C15 witness: a verified topic_created delivery has sent its event
C15_Witness ==
    /\ ~Unauthentic(hook.request)
    /\ hook.request.event = EVENT_TOPIC_CREATED
    /\ hook.forwarded
    /\ Len(events) >= 1
    /\ events[Len(events)].event_type = EVENT_TOPIC_CREATED

\* the positions of a step in the steps of the most recent delivery
At(step) == {i \in DOMAIN hook.steps : hook.steps[i] = step}

\* C16: receive_webhook reads the event type and parses the body only after
\* the signature check and the origin check, the signature check comes
\* before the origin check, and a delivery that fails verification is never
\* parsed.
C16_VerifyBeforeParse ==
    /\ \A i \in At("event") \cup At("parse") :
          /\ \E j \in At("signature") : j < i
          /\ \E j \in At("origin") : j < i
    /\ \A i \in At("origin") : \E j \in At("signature") : j < i
    /\ Unauthentic(hook.request) => (At("parse") = {} /\ At("event") = {})
    /\ delivered > 0 => At("signature") # {}
    /\ (At("parse") # {}) => ~Unauthentic(hook.request)

\* C16 witness: a verified delivery was parsed, after both checks
C16_Witness ==
    /\ hook.steps = <<"signature", "origin", "event", "parse", "forward">>
    /\ hook.forwarded

(***************************************************************************)
(* Properties of concurrent invocations.                                   *)
(***************************************************************************)
\* C10: invocations of update/close on one process are serialized, so that
\* no save() replaces a persisted record by one made from an older remote
\* observation, and none takes a persisted completed status back to pending.
C10_NoStaleOverwrite ==
    [][/\ dbver' >= dbver
       /\ db.status = COMPLETED => db'.status = COMPLETED]_vars

====
